---- MODULE Spec2Model ----
(***************************************************************************)
(* Model of langchain_basics.py: LangChainBasicsDemo and main().            *)
(*                                                                         *)
(* A text (a message's content, a provider's reply) is a sequence of       *)
(* tokens.  A plain sentence is one "word" token; a reply that is meant to *)
(* be JSON is the sequence of its lexical tokens, which json_loads parses. *)
(* Numbers are held in tenths (9 is 0.9, 420 is 42).                       *)
(***************************************************************************)
EXTENDS Integers, Sequences, FiniteSets, TLC

VARIABLES
    env,                   \* which API keys the environment holds
    models,                \* self.models, as the sequence of its keys in insertion order
    entry,                 \* "none", "main" (main() runs) or "direct" (one method is called)
    pc,                    \* "start", "enter", "await", "returned", "done", "crashed"
    scenario,              \* the demonstrate_* method that is running
    idx,                   \* position of the running for-loop (provider index or turn number)
    conversation_history,  \* the list built by demonstrate_conversation_memory
    inflight,              \* the ainvoke call being awaited, <<>> when none
    calls,                 \* every ainvoke call issued so far, in order
    completed,             \* number of ainvoke calls that have returned or raised
    finished,              \* the demonstrate_* methods that have returned, in order
    out                    \* the console: one record per report printed

vars == <<env, models, entry, pc, scenario, idx, conversation_history,
          inflight, calls, completed, finished, out>>

----------------------------------------------------------------------------
(* Bounds *)

\* number of distinct reply texts a provider may return in the chat scenarios
MaxReplies == 2

----------------------------------------------------------------------------
(* Texts and messages *)

Tok(k, s, n) == [k |-> k, s |-> s, n |-> n]
P(s) == Tok("punct", s, 0)
S(s) == Tok("str", s, 0)
N(n) == Tok("num", "", n)
W(s) == Tok("word", s, 0)

Txt(s) == << W(s) >>

SystemMessage(content) == [role |-> "system", content |-> content]
HumanMessage(content) == [role |-> "user", content |-> content]
AIMessage(content) == [role |-> "assistant", content |-> content]

----------------------------------------------------------------------------
(* json.loads *)

JVal(t, s, n, items) == [t |-> t, s |-> s, n |-> n, items |-> items]
JNull == JVal("null", "", 0, <<>>)
ParseFail(i) == [ok |-> FALSE, val |-> JNull, next |-> i]
ParseOk(v, i) == [ok |-> TRUE, val |-> v, next |-> i]

IsPunct(toks, i, s) == i <= Len(toks) /\ toks[i].k = "punct" /\ toks[i].s = s

\* d[key] = val on a dict held as a sequence of <<key, value>> items in
\* insertion order: a key already present keeps its place and takes the value
DictSet(items, key, val) ==
    IF \E j \in 1..Len(items) : items[j].key = key
    THEN [j \in 1..Len(items) |->
             IF items[j].key = key THEN [key |-> key, val |-> val] ELSE items[j]]
    ELSE Append(items, [key |-> key, val |-> val])

RECURSIVE ParseValue(_, _), ParseMembers(_, _, _), ParseElements(_, _, _)

ParseMembers(toks, i, acc) ==
    IF i + 1 <= Len(toks) /\ toks[i].k = "str" /\ IsPunct(toks, i + 1, ":")
    THEN LET r == ParseValue(toks, i + 2) IN
         IF ~r.ok THEN ParseFail(i)
         ELSE LET items == DictSet(acc, toks[i].s, r.val) IN
              IF IsPunct(toks, r.next, ",") THEN ParseMembers(toks, r.next + 1, items)
              ELSE IF IsPunct(toks, r.next, "}")
                   THEN ParseOk(JVal("obj", "", 0, items), r.next + 1)
                   ELSE ParseFail(i)
    ELSE ParseFail(i)

ParseElements(toks, i, acc) ==
    LET r == ParseValue(toks, i) IN
    IF ~r.ok THEN ParseFail(i)
    ELSE LET items == Append(acc, r.val) IN
         IF IsPunct(toks, r.next, ",") THEN ParseElements(toks, r.next + 1, items)
         ELSE IF IsPunct(toks, r.next, "]")
              THEN ParseOk(JVal("arr", "", 0, items), r.next + 1)
              ELSE ParseFail(i)

ParseValue(toks, i) ==
    IF i > Len(toks) THEN ParseFail(i)
    ELSE LET t == toks[i] IN
         CASE t.k = "str" -> ParseOk(JVal("str", t.s, 0, <<>>), i + 1)
           [] t.k = "num" -> ParseOk(JVal("num", "", t.n, <<>>), i + 1)
           [] t.k = "word" /\ t.s = "null" -> ParseOk(JNull, i + 1)
           [] t.k = "word" /\ t.s \in {"true", "false"} ->
                  ParseOk(JVal("bool", t.s, 0, <<>>), i + 1)
           [] t.k = "punct" /\ t.s = "{" ->
                  IF IsPunct(toks, i + 1, "}")
                  THEN ParseOk(JVal("obj", "", 0, <<>>), i + 2)
                  ELSE ParseMembers(toks, i + 1, <<>>)
           [] t.k = "punct" /\ t.s = "[" ->
                  IF IsPunct(toks, i + 1, "]")
                  THEN ParseOk(JVal("arr", "", 0, <<>>), i + 2)
                  ELSE ParseElements(toks, i + 1, <<>>)
           [] OTHER -> ParseFail(i)

\* json.loads(text): the decoded value, or JSONDecodeError (ok = FALSE) when
\* the text is not one JSON value followed by nothing
json_loads(text) ==
    LET r == ParseValue(text, 1) IN
    IF r.ok /\ r.next = Len(text) + 1
    THEN [ok |-> TRUE, val |-> r.val]
    ELSE [ok |-> FALSE, val |-> JNull]

\* whether value.items() exists: only a dict has it, anything else raises AttributeError
HasItems(v) == v.t = "obj"

----------------------------------------------------------------------------
(* Exceptions *)

\* the parent class of each exception class the program can meet
ExcParent(c) ==
    CASE c = "JSONDecodeError" -> "ValueError"
      [] c = "ValueError" -> "Exception"
      [] c = "AttributeError" -> "Exception"
      [] c = "KeyError" -> "LookupError"
      [] c = "LookupError" -> "Exception"
      [] c = "ProviderError" -> "Exception"
      [] c = "Exception" -> "BaseException"
      [] OTHER -> "object"

RECURSIVE IsSubclass(_, _)
IsSubclass(c, h) ==
    IF c = h THEN TRUE
    ELSE IF c \in {"object", "none"} THEN FALSE
    ELSE IsSubclass(ExcParent(c), h)

\* a handler that names too narrow a class
NarrowHandler == "ValueError"

\* except Exception as e of every demonstrate_* method
ProviderHandler == "Exception"

\* except json.JSONDecodeError of demonstrate_structured_output
JsonHandler == "JSONDecodeError"

Catches(handler, exc) == IsSubclass(exc, handler)

----------------------------------------------------------------------------
(* Fixed data of the four scenarios *)

\* LangChainBasicsDemo.__init__: a model per API key present, OpenAI first
BuildModels(e) ==
    (IF e.OPENAI_API_KEY THEN <<"openai">> ELSE <<>>)
        \o (IF e.ANTHROPIC_API_KEY THEN <<"anthropic">> ELSE <<>>)

ScenarioOrder == <<"basic", "template", "memory", "structured">>

basic_messages ==
    << SystemMessage(Txt("You are a helpful customer service assistant.")),
       HumanMessage(Txt("Hello, I need help with my account.")) >>

Ph(name) == Tok("ph", name, 0)

system_template ==
    << W("You are a customer service agent for"), Ph("company_name"),
       W("Your role is to"), Ph("agent_role"),
       W("Always maintain a"), Ph("tone"), W("tone and provide"),
       Ph("response_style"), W("responses.") >>

human_template ==
    << W("Customer inquiry:"), Ph("customer_message"),
       W("Customer context:"), Ph("customer_context"),
       W("Please provide an appropriate response.") >>

template_data ==
    [company_name |-> "TechCorp Solutions",
     agent_role |-> "help customers with technical issues",
     tone |-> "professional and empathetic",
     response_style |-> "clear and actionable",
     customer_message |-> "My application keeps crashing when I try to save files.",
     customer_context |-> "Premium customer, using version 2.1.3 on Windows 11"]

\* whether every placeholder of the template has a value (else format raises KeyError)
CanFormat(template, data) ==
    \A i \in 1..Len(template) :
        template[i].k = "ph" => template[i].s \in DOMAIN data

\* the template with each placeholder replaced by its value
Format(template, data) ==
    [i \in 1..Len(template) |->
        IF template[i].k = "ph" THEN W(data[template[i].s]) ELSE template[i]]

\* chat_prompt.format_messages(**template_data)
formatted_messages ==
    << SystemMessage(Format(system_template, template_data)),
       HumanMessage(Format(human_template, template_data)) >>

seed_message ==
    SystemMessage(Txt("You are a helpful customer service assistant. Remember the context of our conversation."))

customer_messages ==
    << Txt("Hi, I'm having trouble with my account login."),
       Txt("I've tried resetting my password but it's not working."),
       Txt("What other options do I have to regain access?") >>

\* structured_prompt.format_messages(): the fixed system and user pair
structured_messages ==
    << SystemMessage(Txt("You are a customer inquiry analyzer. Respond only with valid JSON.")),
       HumanMessage(Txt("I'm really frustrated! My premium subscription was charged twice this month.")) >>

\* the messages a provider-loop scenario sends to every provider
LoopMessages(s) == IF s = "basic" THEN basic_messages ELSE formatted_messages

\* the last model in place of the first
LastModel == Len(models)

\* model = next(iter(self.models.values())): the position of the model used
FirstModel == 1

----------------------------------------------------------------------------
(* What a provider may answer *)

ChatReplies == { << Tok("word", "reply", i) >> : i \in 1..MaxReplies }

Analysis(category, urgency, sentiment, confidence) ==
    << P("{"), S("category"), P(":"), S(category), P(","),
       S("urgency"), P(":"), S(urgency), P(","),
       S("sentiment"), P(":"), S(sentiment), P(","),
       S("confidence"), P(":"), N(confidence), P("}") >>

T_valid == Analysis("billing", "high", "negative", 9)
T_bad_enum == Analysis("billing", "extreme", "negative", 9)
T_bad_confidence == Analysis("billing", "high", "negative", 15)
T_missing == << P("{"), S("category"), P(":"), S("billing"), P("}") >>
T_wrong_type ==
    << P("{"), S("category"), P(":"), N(10), P(","),
       S("urgency"), P(":"), S("high"), P(","),
       S("sentiment"), P(":"), S("negative"), P(","),
       S("confidence"), P(":"), S("high"), P("}") >>
T_empty_object == << P("{"), P("}") >>
T_not_json == << W("not"), W("json"), W("at"), W("all") >>
T_fenced == << W("json") >> \o T_valid \o << W("end") >>
T_unclosed == << P("{"), S("category"), P(":"), S("billing") >>
T_empty == << >>
T_array == << P("["), N(10), P(","), N(20), P("]") >>
T_number == << N(420) >>
T_string == << S("billing") >>
T_null == << W("null") >>

StructuredResponses ==
    { T_valid, T_bad_enum, T_bad_confidence, T_missing, T_wrong_type,
      T_empty_object, T_not_json, T_fenced, T_unclosed, T_empty,
      T_array, T_number, T_string, T_null }

\* what await model.ainvoke(...) can do: return a reply or raise
Outcomes(replies) ==
    { [ok |-> TRUE, content |-> c, exc |-> "none"] : c \in replies }
        \cup { [ok |-> FALSE, content |-> << >>, exc |-> "ProviderError"] }

----------------------------------------------------------------------------
(* Console reports *)

Rep(kind, s, provider, n, detail) ==
    [kind |-> kind, scenario |-> s, provider |-> provider, n |-> n, detail |-> detail]

Line(kind, s) == Rep(kind, s, "", 0, << >>)

Call(s, provider, messages) ==
    [scenario |-> s, provider |-> provider, messages |-> messages]

----------------------------------------------------------------------------
(* State machine *)

Init ==
    /\ env \in [OPENAI_API_KEY : BOOLEAN, ANTHROPIC_API_KEY : BOOLEAN]
    /\ models = BuildModels(env)
    /\ entry = "none"
    /\ pc = "start"
    /\ scenario = "none"
    /\ idx = 0
    /\ conversation_history = << >>
    /\ inflight = << >>
    /\ calls = << >>
    /\ completed = 0
    /\ finished = << >>
    /\ out = << >>

\* issue await model.ainvoke(messages) on the model at position i, after printing prints
Issue(s, i, messages, prints) ==
    /\ inflight' = << Call(s, models[i], messages) >>
    /\ calls' = Append(calls, Call(s, models[i], messages))
    /\ out' = out \o prints
    /\ pc' = "await"
    /\ UNCHANGED finished

\* a demonstrate_* method returns (or an exception leaves it) after printing prints
Leave(prints, to) ==
    /\ inflight' = << >>
    /\ out' = out \o prints
    /\ pc' = to
    /\ finished' = IF to = "returned" THEN Append(finished, scenario) ELSE finished
    /\ UNCHANGED calls

\* main() without its empty check
Main_unchecked ==
    /\ pc = "start"
    /\ entry' = "main"
    /\ out' = Append(out, Line("banner", "none"))
    /\ pc' = "enter"
    /\ scenario' = ScenarioOrder[1]
    /\ UNCHANGED <<env, models, idx, conversation_history, inflight, calls, completed,
                   finished>>

\* main(): lines 214-221
Main ==
    /\ pc = "start"
    /\ entry' = "main"
    /\ IF models = << >>
       THEN /\ out' = Append(out, Line("no_config", "none"))
            /\ pc' = "done"
            /\ UNCHANGED scenario
       ELSE /\ out' = Append(out, Line("banner", "none"))
            /\ pc' = "enter"
            /\ scenario' = ScenarioOrder[1]
    /\ UNCHANGED <<env, models, idx, conversation_history, inflight, calls, completed,
                   finished>>

\* a caller other than main() awaits one demonstrate_* method
DirectCall(s) ==
    /\ pc = "start"
    /\ entry' = "direct"
    /\ scenario' = s
    /\ pc' = "enter"
    /\ UNCHANGED <<env, models, idx, conversation_history, inflight, calls, completed,
                   finished, out>>

\* the first lines of every demonstrate_* method: the header and the empty check
NoModels(s) == << Line("header", s), Line("no_models", s) >>

\* demonstrate_basic_chat / demonstrate_prompt_templates up to the first await
ProviderLoopEnter(s) ==
    /\ pc = "enter"
    /\ scenario = s
    /\ idx' = 1
    /\ IF models = << >>
       THEN Leave(NoModels(s), "returned")
       ELSE IF s = "template" /\ ~(CanFormat(system_template, template_data)
                                     /\ CanFormat(human_template, template_data))
       THEN Leave(<< Line("header", s) >>, "crashed")
       ELSE Issue(s, 1, LoopMessages(s),
                  << Line("header", s) >>
                    \o (IF s = "template" THEN << Line("prompt", s) >> ELSE << >>)
                    \o << Rep("testing", s, models[1], 0, << >>) >>)
    /\ UNCHANGED <<env, models, entry, scenario, conversation_history, completed>>

demonstrate_basic_chat == ProviderLoopEnter("basic")

demonstrate_prompt_templates == ProviderLoopEnter("template")

\* a provider loop that stops at the first failure
LoopAfterError_break == "break"

\* what the provider loop does after its handler has reported a failure:
\* it goes on with the next provider
LoopAfterError == "continue"

\* the rest of the provider loop: the awaited call ends, its result is printed,
\* and the loop goes to the next provider or the method returns
ProviderLoopResume(s) ==
    /\ pc = "await"
    /\ scenario = s
    /\ \E r \in Outcomes(ChatReplies) :
        /\ completed' = completed + 1
        /\ LET report == IF r.ok THEN Line("response", s) ELSE Line("error", s)
               more == idx < Len(models) /\ (r.ok \/ LoopAfterError = "continue")
           IN IF ~r.ok /\ ~Catches(ProviderHandler, r.exc)
              THEN Leave(<< >>, "crashed") /\ idx' = idx
              ELSE IF more
                   THEN /\ Issue(s, idx + 1, LoopMessages(s),
                                 << report, Rep("testing", s, models[idx + 1], 0, << >>) >>)
                        /\ idx' = idx + 1
                   ELSE Leave(<< report >>, "returned") /\ idx' = idx
    /\ UNCHANGED <<env, models, entry, scenario, conversation_history>>

basic_chat_resume == ProviderLoopResume("basic")

prompt_templates_resume == ProviderLoopResume("template")

\* demonstrate_conversation_memory, lines 121-135: the header, the empty
\* check, and the history created with its seed message
demonstrate_conversation_memory ==
    /\ pc = "enter"
    /\ scenario = "memory"
    /\ IF models = << >>
       THEN /\ Leave(NoModels("memory"), "returned")
            /\ UNCHANGED <<conversation_history, idx>>
       ELSE /\ conversation_history' = << seed_message >>
            /\ out' = Append(out, Line("header", "memory"))
            /\ idx' = 1
            /\ pc' = "turn"
            /\ UNCHANGED <<inflight, calls, finished>>
    /\ UNCHANGED <<env, models, entry, scenario, completed>>

\* list.insert(0, message) in place of list.append
list_insert_front(history, message) == << message >> \o history

\* list.append of lines 148 and 155
list_append(history, message) == Append(history, message)

\* only the newest message is sent
TurnMessages_last(history) == << history[Len(history)] >>

\* the argument of ainvoke at line 151: the history list itself
TurnMessages(history) == history

\* lines 143-151: turn idx begins; the customer message is appended and the
\* whole history is sent to the first model
conversation_turn ==
    /\ pc = "turn"
    /\ scenario = "memory"
    /\ LET history == list_append(conversation_history, HumanMessage(customer_messages[idx]))
       IN /\ conversation_history' = history
          /\ Issue("memory", FirstModel, TurnMessages(history),
                   << Rep("turn", "memory", "", idx, << >>) >>)
          /\ idx' = idx
    /\ UNCHANGED <<env, models, entry, scenario, completed>>

\* a turn loop that goes on after a failure
TurnAfterError_continue == "continue"

\* what the turn loop does after its handler has reported a failure: line 158
TurnAfterError == "break"

\* the reply appended with the customer's role
Reply_as_user(content) == HumanMessage(content)

\* the message appended after a successful call: line 155
Reply(content) == AIMessage(content)

\* lines 151-158: the awaited call ends; on success the reply is appended and
\* the next turn follows, on failure the loop is left
conversation_resume ==
    /\ pc = "await"
    /\ scenario = "memory"
    /\ \E r \in Outcomes(ChatReplies) :
        /\ completed' = completed + 1
        /\ inflight' = << >>
        /\ UNCHANGED calls
        /\ IF r.ok
           THEN /\ conversation_history' = list_append(conversation_history, Reply(r.content))
                /\ out' = Append(out, Line("assistant", "memory"))
                /\ IF idx < Len(customer_messages)
                   THEN idx' = idx + 1 /\ pc' = "turn"
                   ELSE idx' = idx /\ pc' = "returned"
           ELSE /\ UNCHANGED conversation_history
                /\ IF ~Catches(ProviderHandler, r.exc)
                   THEN out' = out /\ idx' = idx /\ pc' = "crashed"
                   ELSE /\ out' = Append(out, Line("error", "memory"))
                        /\ IF TurnAfterError = "break" \/ idx >= Len(customer_messages)
                           THEN idx' = idx /\ pc' = "returned"
                           ELSE idx' = idx + 1 /\ pc' = "turn"
        /\ finished' = IF pc' = "returned" THEN Append(finished, "memory") ELSE finished
    /\ UNCHANGED <<env, models, entry, scenario>>

\* demonstrate_structured_output, lines 162-194: the header, the empty check,
\* and the one call to the first model
demonstrate_structured_output ==
    /\ pc = "enter"
    /\ scenario = "structured"
    /\ idx' = 1
    /\ IF models = << >>
       THEN Leave(NoModels("structured"), "returned")
       ELSE Issue("structured", FirstModel, structured_messages,
                  << Line("header", "structured") >>)
    /\ UNCHANGED <<env, models, entry, scenario, conversation_history, completed>>

Block(prints, exc) == [prints |-> prints, exc |-> exc]

\* the loop over the items stops one short
FieldLines_short(items) ==
    [j \in 1..(Len(items) - 1) |-> Rep("field", "structured", "", 0, << items[j] >>)]

\* lines 204-205: one line per key and value of the decoded dict
FieldLines(items) ==
    [j \in 1..Len(items) |-> Rep("field", "structured", "", 0, << items[j] >>)]

\* the body of the inner try, lines 202-205
ParseBlock(content) ==
    LET decoded == json_loads(content) IN
    IF ~decoded.ok THEN Block(<< >>, "JSONDecodeError")
    ELSE IF ~HasItems(decoded.val)
         THEN Block(<< Line("parsed_ok", "structured") >>, "AttributeError")
         ELSE Block(<< Line("parsed_ok", "structured") >> \o FieldLines(decoded.val.items),
                    "none")

\* the inner try with its handler, lines 201-207
ParseStep(content) ==
    LET b == ParseBlock(content) IN
    IF b.exc # "none" /\ Catches(JsonHandler, b.exc)
    THEN Block(b.prints \o << Line("not_json", "structured") >>, "none")
    ELSE b

\* the body of the outer try once the call has ended, lines 194-207
AnalysisBlock(r) ==
    IF ~r.ok THEN Block(<< >>, r.exc)
    ELSE LET b == ParseStep(r.content) IN
         Block(<< Rep("analysis", "structured", "", 0, r.content) >> \o b.prints, b.exc)

\* lines 193-209: the awaited call ends and the response is printed and parsed
structured_output_resume ==
    /\ pc = "await"
    /\ scenario = "structured"
    /\ \E r \in Outcomes(StructuredResponses) :
        /\ completed' = completed + 1
        /\ LET b == AnalysisBlock(r) IN
           IF b.exc = "none" THEN Leave(b.prints, "returned")
           ELSE IF Catches(ProviderHandler, b.exc)
                THEN Leave(b.prints \o << Line("error", "structured") >>, "returned")
                ELSE Leave(b.prints, "crashed")
    /\ UNCHANGED <<env, models, entry, scenario, idx, conversation_history>>

Pos(s) == CHOOSE i \in 1..Len(ScenarioOrder) : ScenarioOrder[i] = s

\* main(), lines 223-228: the awaited method has returned; the next one is
\* awaited, or the completion line is printed.  A direct caller just ends.
main_resume ==
    /\ pc = "returned"
    /\ IF entry = "main" /\ Pos(scenario) < Len(ScenarioOrder)
       THEN /\ scenario' = ScenarioOrder[Pos(scenario) + 1]
            /\ pc' = "enter"
            /\ out' = out
       ELSE /\ scenario' = scenario
            /\ pc' = "done"
            /\ out' = IF entry = "main" THEN Append(out, Line("complete", "none")) ELSE out
    /\ UNCHANGED <<env, models, entry, idx, conversation_history, inflight, calls, completed,
                   finished>>

Next ==
    \/ Main
    \/ \E s \in {ScenarioOrder[i] : i \in 1..Len(ScenarioOrder)} : DirectCall(s)
    \/ demonstrate_basic_chat
    \/ basic_chat_resume
    \/ demonstrate_prompt_templates
    \/ prompt_templates_resume
    \/ demonstrate_conversation_memory
    \/ conversation_turn
    \/ conversation_resume
    \/ demonstrate_structured_output
    \/ structured_output_resume
    \/ main_resume

Spec == Init /\ [][Next]_vars

\* every awaited call ends and asyncio runs every ready coroutine
FairSpec == Spec /\ WF_vars(Next)

----------------------------------------------------------------------------
(* Reading the logs *)

CallsOf(s) == SelectSeq(calls, LAMBDA c : c.scenario = s)

OutOf(s) == SelectSeq(out, LAMBDA o : o.scenario = s)

CountKind(s, kind) == Len(SelectSeq(out, LAMBDA o : o.scenario = s /\ o.kind = kind))

Returned(s) == \E i \in 1..Len(finished) : finished[i] = s

Headers ==
    LET hs == SelectSeq(out, LAMBDA o : o.kind = "header")
    IN [i \in 1..Len(hs) |-> hs[i].scenario]

\* the reports of a provider loop: the provider announced, then its result
LoopReports(s) ==
    SelectSeq(out, LAMBDA o : o.scenario = s /\ o.kind \in {"testing", "response", "error"})

\* the response texts printed by the structured-output scenario
AnalysisTexts ==
    LET as == SelectSeq(out, LAMBDA o : o.kind = "analysis")
    IN {as[i].detail : i \in 1..Len(as)}

HasKey(items, key) == \E j \in 1..Len(items) : items[j].key = key

Get(items, key) == items[CHOOSE j \in 1..Len(items) : items[j].key = key].val

IsStrIn(v, allowed) == v.t = "str" /\ v.s \in allowed

\* the analysis record the prompt asks for: all four keys, each in its range
ValidAnalysis(v) ==
    /\ v.t = "obj"
    /\ \A key \in {"category", "urgency", "sentiment", "confidence"} : HasKey(v.items, key)
    /\ IsStrIn(Get(v.items, "category"), {"technical", "billing", "general", "complaint"})
    /\ IsStrIn(Get(v.items, "urgency"), {"low", "medium", "high", "critical"})
    /\ IsStrIn(Get(v.items, "sentiment"), {"positive", "neutral", "negative"})
    /\ Get(v.items, "confidence").t = "num"
    /\ Get(v.items, "confidence").n \in 0..10

----------------------------------------------------------------------------
(* Claims *)

\* C1: with a non-empty registry, whatever calls fail, main() runs the four
\* scenarios in order, each returns, the run ends with the completion line,
\* and no failure leaves a method uncaught.
C1_MainCompletes ==
    /\ [](pc # "crashed")
    /\ [](entry = "main" /\ models # << >> /\ pc = "done"
            => /\ finished = ScenarioOrder
               /\ Headers = ScenarioOrder
               /\ out[Len(out)] = Line("complete", "none")
               /\ Len(SelectSeq(out, LAMBDA o : o.kind = "complete")) = 1)
    /\ [](entry = "main" /\ models # << >> => <>(pc = "done"))

\* C1 witness: a run of main() with two providers in which all six calls fail
C1_AllCallsFail ==
    /\ entry = "main"
    /\ pc = "done"
    /\ Len(models) = 2
    /\ Len(calls) = 6
    /\ Len(SelectSeq(out, LAMBDA o : o.kind = "error")) = 6
    /\ out[Len(out)] = Line("complete", "none")

\* C2: with an empty registry a scenario that is run prints its header and
\* the no-models report and calls no provider; main() prints the
\* missing-configuration report once and enters no scenario.
C2_EmptyRegistry ==
    models = << >> =>
        /\ calls = << >>
        /\ inflight = << >>
        /\ completed = 0
        /\ pc \notin {"await", "turn", "crashed"}
        /\ entry = "main" =>
              /\ pc = "done"
              /\ out = << Line("no_config", "none") >>
              /\ scenario = "none"
              /\ finished = << >>
        /\ entry = "direct" /\ pc \in {"returned", "done"} =>
              /\ out = << Line("header", scenario), Line("no_models", scenario) >>
              /\ finished = << scenario >>

\* C2 witness: the multi-turn scenario called with no provider has reported it
C2_NoProvidersReported ==
    /\ models = << >>
    /\ entry = "direct"
    /\ scenario = "memory"
    /\ pc = "done"
    /\ CountKind("memory", "no_models") = 1

\* C3: when every call of the multi-turn scenario succeeds, the final history
\* has 7 messages: the seed, then the three scripted utterances in order,
\* each followed by an assistant reply.
C3_FullHistory ==
    Returned("memory") /\ models # << >> /\ CountKind("memory", "error") = 0 =>
        /\ Len(conversation_history) = 7
        /\ conversation_history[1] = seed_message
        /\ \A k \in 1..3 :
              /\ conversation_history[2 * k] = HumanMessage(customer_messages[k])
              /\ conversation_history[2 * k + 1].role = "assistant"

\* C3 witness: the multi-turn scenario has returned after three successful turns
C3_ThreeTurnsDone ==
    /\ Returned("memory")
    /\ CountKind("memory", "assistant") = 3
    /\ CountKind("memory", "error") = 0
    /\ Len(conversation_history) = 7

\* C4: when the call of utterance k fails, the multi-turn scenario ends at
\* once: k calls were made, the history has 2k messages and ends with the
\* k-th utterance, and one failure is reported (length 4 for k = 2).
C4_EarlyTermination ==
    CountKind("memory", "error") > 0 =>
        LET k == Len(CallsOf("memory")) IN
        /\ k \in 1..3
        /\ CountKind("memory", "error") = 1
        /\ CountKind("memory", "turn") = k
        /\ CountKind("memory", "assistant") = k - 1
        /\ Len(conversation_history) = 2 * k
        /\ conversation_history[2 * k] = HumanMessage(customer_messages[k])
        /\ k = 2 => Len(conversation_history) = 4
        /\ Returned("memory")
        /\ ~(scenario = "memory" /\ pc \in {"turn", "await"})

\* C4 witness: the second utterance's call failed and the scenario returned
C4_FailedSecondTurn ==
    /\ CountKind("memory", "error") = 1
    /\ Len(CallsOf("memory")) = 2
    /\ Len(conversation_history) = 4
    /\ Returned("memory")

\* C5: the call of turn k carries the whole history of that moment: 2k
\* messages ending with the k-th utterance, every earlier utterance followed
\* by its reply; so no turn is sent before the reply before it is appended.
C5_TurnsOrdered ==
    LET mc == CallsOf("memory") IN
    /\ \A j \in 1..Len(mc) :
          /\ Len(mc[j].messages) = 2 * j
          /\ Len(conversation_history) >= 2 * j
          /\ mc[j].messages = SubSeq(conversation_history, 1, 2 * j)
          /\ mc[j].messages[2 * j] = HumanMessage(customer_messages[j])
          /\ \A i \in 1..(j - 1) :
                /\ mc[j].messages[2 * i] = HumanMessage(customer_messages[i])
                /\ mc[j].messages[2 * i + 1].role = "assistant"
    /\ scenario = "memory" /\ pc = "await" =>
          inflight = << Call("memory", models[1], conversation_history) >>

\* C5 witness: the third turn's call is being awaited
C5_ThirdTurnInFlight ==
    /\ scenario = "memory"
    /\ pc = "await"
    /\ Len(CallsOf("memory")) = 3

\* C6: the basic-chat and prompt-template scenarios call every provider once,
\* in registry order, one call at a time; a failure is reported after the
\* provider's announcement and the next provider is still called.
C6_ProviderOrder ==
    /\ Len(calls) <= completed + 1
    /\ Len(inflight) = Len(calls) - completed
    /\ \A s \in {"basic", "template"} :
          LET cs == CallsOf(s)
              rs == LoopReports(s)
          IN /\ Len(cs) <= Len(models)
             /\ \A i \in 1..Len(cs) :
                   cs[i].provider = models[i] /\ cs[i].messages = LoopMessages(s)
             /\ Returned(s) => Len(cs) = Len(models) /\ Len(rs) = 2 * Len(cs)
             /\ Len(rs) <= 2 * Len(cs)
             /\ Len(rs) >= 2 * Len(cs) - 1
             /\ \A i \in 1..Len(rs) :
                   IF i % 2 = 1
                   THEN rs[i].kind = "testing" /\ rs[i].provider = models[(i + 1) \div 2]
                   ELSE rs[i].kind \in {"response", "error"}

\* C6 witness: basic chat returned after the first provider failed and the second answered
C6_FailureThenSuccess ==
    /\ Returned("basic")
    /\ Len(models) = 2
    /\ Len(LoopReports("basic")) = 4
    /\ LoopReports("basic")[2].kind = "error"
    /\ LoopReports("basic")[4].kind = "response"

C8_OneParseOutcome ==
    Returned("structured") =>
        \A text \in AnalysisTexts :
            /\ CountKind("structured", "parsed_ok") + CountKind("structured", "not_json") = 1
            /\ CountKind("structured", "error") = 0
            /\ ~json_loads(text).ok => CountKind("structured", "not_json") = 1

\* C9: the history only grows at its end, one message at a time, and always
\* starts with the seed message.
C9_AppendOnly ==
    [][ /\ \/ conversation_history' = conversation_history
           \/ /\ Len(conversation_history') = Len(conversation_history) + 1
              /\ SubSeq(conversation_history', 1, Len(conversation_history))
                    = conversation_history
        /\ conversation_history' # << >> => conversation_history'[1] = seed_message
      ]_vars

\* C9 witness: the history after a failed second turn: seed, one pair, one utterance
C9_HistoryAfterFailure ==
    /\ Len(conversation_history) = 4
    /\ CountKind("memory", "error") = 1
    /\ conversation_history[1] = seed_message
    /\ pc = "done"

\* C10: the multi-turn and structured-output scenarios call only the first
\* provider of the registry, also after a failure; the structured-output
\* scenario makes one call, with the fixed system and user messages.
C10_FirstProviderOnly ==
    /\ \A i \in 1..Len(calls) :
          calls[i].scenario \in {"memory", "structured"} => calls[i].provider = models[1]
    /\ LET sc == CallsOf("structured") IN
          /\ Len(sc) <= 1
          /\ Returned("structured") /\ models # << >> => Len(sc) = 1
          /\ \A i \in 1..Len(sc) :
                /\ sc[i].messages = structured_messages
                /\ Len(sc[i].messages) = 2
                /\ sc[i].messages[1].role = "system"
                /\ sc[i].messages[2].role = "user"

\* C10 witness: with two providers, the first one failed in both scenarios
C10_FirstFailsTwoProviders ==
    /\ Len(models) = 2
    /\ entry = "main"
    /\ pc = "done"
    /\ CountKind("memory", "error") = 1
    /\ CountKind("structured", "error") = 1
    /\ AnalysisTexts = {}

====
